---- MODULE Spec2Model ----
(***************************************************************************)
(* Attachment extraction-and-persistence pipeline of invoice-inbox.        *)
(*                                                                         *)
(* processAttachment is an async function: every `await` is a suspension   *)
(* point, the code between two awaits runs atomically.  Each action below  *)
(* is the completion of one awaited call together with the synchronous     *)
(* code that follows it up to the next await (or up to the return).        *)
(* Several invocations run concurrently against one OneDrive.              *)
(*                                                                         *)
(* Spec        two concurrent invocations, storage included                *)
(* SpecSeq     one invocation after the other, storage included            *)
(* SpecExtract the extraction phase of every copy, up to the validation    *)
(* SpecFence   stripFence and JSON.parse on their own                      *)
(* SpecRepeat  the same attachment processed again and again               *)
(* SpecSanitize sanitizeFilename on names around and beyond the cut        *)
(* SpecFair    Spec for the lib copy, every call eventually completing     *)
(* SpecConnect connectWithRetry of the mail fetcher on its own             *)
(***************************************************************************)
EXTENDS Integers, Sequences, FiniteSets, TLC

\* ------------------------------------------------------------------ bounds
MaxInvocations == 2

\* longest string value of the objects handed to stripFence on its own
MaxValueLen == 3

\* -------------------------------------------------------- program constants
MaxNameLen == 100

\* two concurrently running processAttachment tasks (Promise.all dispatch)
Tasks == {"A", "B"}

\* the copies of processAttachment that share the OneDrive storage modules
\* modelled below: src/lib/invoiceProcessor.js and src/unnamed/part_000
Variants == {"lib", "resolve"}

\* every copy whose extraction phase is modelled: the two above, the Twilio
\* handler of src/unnamed/part_007 and src/scripts/local-test.js
ExtractVariants == Variants \cup {"twilio", "local"}

\* time zone of the host, hours east of UTC
TimeZones == {0, 2}

\* ------------------------------------------------------------- characters
IllegalChars == {"/", "\\", ":", "*", "?", "\"", "<", ">", "|", "#", "%"}

WhitespaceChars == {" ", "\t", "\n"}

\* "Invoice #1.png"
FN_Invoice == <<"I","n","v","o","i","c","e"," ","#","1",".","p","n","g">>

\* "invoices.csv"
FN_Ledger == <<"i","n","v","o","i","c","e","s",".","c","s","v">>

\* ""
FN_Empty == <<>>

Filenames == {FN_Invoice, FN_Ledger, FN_Empty}

ContentTypes == {"application/pdf", "image/png", "application/zip"}

\* the declared types that satisfy contentType.startsWith('image/')
ImageTypes == {"image/png", "image/jpeg"}

Min(a, b) == IF a < b THEN a ELSE b

\* a replacement that percent-encodes the reserved characters
RECURSIVE ReplaceIllegalEncoding(_)
ReplaceIllegalEncoding(s) ==
  IF s = <<>> THEN <<>>
  ELSE IF Len(s) = 1
       THEN IF s[1] \in IllegalChars THEN <<"%", "2", "3">> ELSE s
       ELSE LET mid == Len(s) \div 2 IN
            ReplaceIllegalEncoding(SubSeq(s, 1, mid))
            \o ReplaceIllegalEncoding(SubSeq(s, mid + 1, Len(s)))

\* String.prototype.replace(/[\/\\:*?"<>|#%]/g, '-')
ReplaceIllegal(s) == [i \in 1..Len(s) |-> IF s[i] \in IllegalChars THEN "-" ELSE s[i]]

\* String.prototype.replace(/\s+/g, '_'): every maximal run becomes one '_'.
\* CollapseFrom(s, after) is what the replacement leaves of the part s of a
\* string, after telling whether the character before s is whitespace; the
\* part is halved so that names of a few hundred characters evaluate
RECURSIVE CollapseFrom(_, _)
CollapseFrom(s, after) ==
  IF s = <<>> THEN <<>>
  ELSE IF Len(s) = 1
       THEN IF s[1] \notin WhitespaceChars THEN s
            ELSE IF after THEN <<>> ELSE <<"_">>
       ELSE LET mid == Len(s) \div 2 IN
            CollapseFrom(SubSeq(s, 1, mid), after)
            \o CollapseFrom(SubSeq(s, mid + 1, Len(s)), s[mid] \in WhitespaceChars)

CollapseWhitespace(s) == CollapseFrom(s, FALSE)

\* a slice whose end index is off by one: slice(0, 101)
Slice101(s) == SubSeq(s, 1, Min(Len(s), MaxNameLen + 1))

\* String.prototype.slice(0, 100)
Slice100(s) == SubSeq(s, 1, Min(Len(s), MaxNameLen))

\* a sanitizer that drops the reserved characters instead of replacing them
sanitizeFilenameDropping(filename) ==
  Slice100(CollapseWhitespace(SelectSeq(filename, LAMBDA ch : ch \notin IllegalChars)))

sanitizeFilename(filename) == Slice100(CollapseWhitespace(ReplaceIllegal(filename)))

\* ------------------------------------------------------------ JSON values
Undefined == [t |-> "undefined", s |-> "", n |-> 0]

Null == [t |-> "null", s |-> "", n |-> 0]

Str(x) == [t |-> "string", s |-> x, n |-> 0]

Num(x) == [t |-> "number", s |-> "", n |-> x]

\* property read on a parsed object: an absent key reads as undefined
Get(o, k) == IF k \in DOMAIN o THEN o[k] ELSE Undefined

\* JavaScript ToBoolean negated: !v
Falsy(v) ==
  \/ v.t = "undefined"
  \/ v.t = "null"
  \/ v.t = "string" /\ v.s = ""
  \/ v.t = "number" /\ v.n = 0

\* ------------------------------------------------------------ stripFence
\* the copies of stripFence: the one of src/lib/invoiceProcessor.js (the
\* same in part_000, part_007 and local-test.js) and the older one of
\* src/unnamed/part_008
FenceVariants == {"lib", "old"}

\* "zw" stands for one character of U+200B..U+200D, U+FEFF, "bt" for the
\* backtick U+0060
ZeroWidth == {"zw"}

\* three backticks, the fence
Fence3 == <<"bt", "bt", "bt">>

\* the characters of the string values handed to stripFence on its own
FenceChars == {"a", "bt", "zw", "\""}

FenceValues == UNION {[1..n -> FenceChars] : n \in 0..MaxValueLen}

\* the JSON objects { "k": value }
FenceObjects == {[k |-> v] : v \in FenceValues}

\* pat occurs in s at index i
Occurs(s, pat, i) ==
  i >= 1 /\ i + Len(pat) - 1 <= Len(s) /\ SubSeq(s, i, i + Len(pat) - 1) = pat

\* the first index >= from at which pat occurs in s, 0 when there is none
IndexFrom(s, pat, from) ==
  LET I == {i \in from..Len(s) : Occurs(s, pat, i)}
  IN IF I = {} THEN 0 ELSE CHOOSE i \in I : \A j \in I : i <= j

\* the i flag of the regular expressions
Lower(ch) ==
  CASE ch = "J" -> "j" [] ch = "S" -> "s" [] ch = "O" -> "o" [] ch = "N" -> "n"
    [] OTHER -> ch

\* (?:json) matches at index i
IsJsonTag(s, i) ==
  /\ i >= 1 /\ i + 3 <= Len(s)
  /\ [x \in 1..4 |-> Lower(s[i + x - 1])] = <<"j", "s", "o", "n">>

\* \s* from index i: the index of the first character that is no whitespace
RECURSIVE SkipSpace(_, _)
SkipSpace(s, i) ==
  IF i <= Len(s) /\ s[i] \in WhitespaceChars THEN SkipSpace(s, i + 1) ELSE i

\* s* from index i: the index of the first character that is not 's'
RECURSIVE SkipS(_, _)
SkipS(s, i) == IF i <= Len(s) /\ s[i] = "s" THEN SkipS(s, i + 1) ELSE i

RECURSIVE TrimEnd(_)
TrimEnd(s) ==
  IF s # <<>> /\ s[Len(s)] \in WhitespaceChars THEN TrimEnd(SubSeq(s, 1, Len(s) - 1)) ELSE s

\* String.prototype.trim
Trim(s) == TrimEnd(SubSeq(s, SkipSpace(s, 1), Len(s)))

\* str.replace(/[\u200B-\u200D\uFEFF]/g, '')
StripZeroWidth(s) == SelectSeq(s, LAMBDA ch : ch \notin ZeroWidth)

\* stripFence of src/lib/invoiceProcessor.js: the zero-width characters are
\* removed, then /(3 bt)(?:json)?\s*([\s\S]*?)(3 bt)/i is matched: the leftmost
\* fence opens, the tag and the whitespace after it are skipped, the
\* capture ends before the next fence; without a match the whole is trimmed
stripFenceLib(s0) ==
  LET s == StripZeroWidth(s0)
      i == IndexFrom(s, Fence3, 1)
      j == SkipSpace(s, IF IsJsonTag(s, i + 3) THEN i + 7 ELSE i + 3)
      c == IF i = 0 THEN 0 ELSE IndexFrom(s, Fence3, j)
  IN IF i # 0 /\ c # 0 THEN Trim(SubSeq(s, j, c - 1)) ELSE Trim(s)

\* the first index at which /(3 bt)json\\s*/i matches: the fence, the tag and
\* a backslash (the pattern escapes the backslash, not the s)
OldOpening(s) ==
  LET I == {i \in 1..Len(s) :
              /\ Occurs(s, Fence3, i) /\ IsJsonTag(s, i + 3)
              /\ i + 7 <= Len(s) /\ s[i + 7] = "\\"}
  IN IF I = {} THEN 0 ELSE CHOOSE i \in I : \A j \in I : i <= j

\* stripFence of src/unnamed/part_008:
\* str.replace(/(3 bt)json\\s*/i, '').replace(/(3 bt)$/, '').trim()
stripFenceOld(s) ==
  LET i == OldOpening(s)
      a == IF i = 0 THEN s
           ELSE SubSeq(s, 1, i - 1) \o SubSeq(s, SkipS(s, i + 8), Len(s))
      b == IF Occurs(a, Fence3, Len(a) - 2) THEN SubSeq(a, 1, Len(a) - 3) ELSE a
  IN Trim(b)

stripFence(v, s) == IF v = "old" THEN stripFenceOld(s) ELSE stripFenceLib(s)

\* the escapes of JSON.stringify inside a string
RECURSIVE Escape(_)
Escape(s) ==
  IF s = <<>> THEN <<>>
  ELSE (IF Head(s) \in {"\"", "\\"} THEN <<"\\", Head(s)>> ELSE <<Head(s)>>)
       \o Escape(Tail(s))

\* JSON.stringify of the object { "k": value }
JSONstringify(o) ==
  <<"{", "\"", "k", "\"", ":", "\"">> \o Escape(o.k) \o <<"\"", "}">>

\* (3 bt) + "json\n" + t + "\n" + (3 bt)
Fenced(t) == <<"bt", "bt", "bt", "j", "s", "o", "n", "\n">> \o t \o <<"\n", "bt", "bt", "bt">>

\* the result of JSON.parse: the object, or a SyntaxError
ParseOk(v) == [done |-> TRUE, ok |-> TRUE, val |-> [k |-> v]]

SyntaxError == [done |-> TRUE, ok |-> FALSE, val |-> [k |-> <<>>]]

\* the string value from index i of s on, acc read so far, up to the
\* closing quote, which "}" has to follow as the last character
RECURSIVE ParseString(_, _, _)
ParseString(s, i, acc) ==
  IF i > Len(s) THEN SyntaxError
  ELSE IF s[i] = "\""
       THEN IF i + 1 = Len(s) /\ s[i + 1] = "}" THEN ParseOk(acc) ELSE SyntaxError
  ELSE IF s[i] = "\\"
       THEN IF i + 1 <= Len(s) /\ s[i + 1] \in {"\"", "\\"}
            THEN ParseString(s, i + 2, Append(acc, s[i + 1]))
            ELSE SyntaxError
  ELSE IF s[i] \in {"\n", "\t"} THEN SyntaxError
  ELSE ParseString(s, i + 1, Append(acc, s[i]))

\* JSON.parse on the texts of this model: { "k": string } is an object,
\* every other text a SyntaxError
JSONparse(s) ==
  IF Occurs(s, <<"{", "\"", "k", "\"", ":", "\"">>, 1)
  THEN ParseString(s, 7, <<>>)
  ELSE SyntaxError

\* ------------------------------------------------------------------ dates
\* the invoice_date strings the AI model returns in this model
DateStrings == {"2025-03-01", "2025-07-01T00:00:00", "n/a"}

\* Date.parse: a date-only ISO string is UTC midnight, an ISO date-time
\* without offset is local time, anything else here is an Invalid Date
DateParse(s) ==
  CASE s = "2025-03-01" -> [valid |-> TRUE, utc |-> TRUE, y |-> 2025, m |-> 3, d |-> 1, h |-> 0]
    [] s = "2025-07-01T00:00:00" -> [valid |-> TRUE, utc |-> FALSE, y |-> 2025, m |-> 7, d |-> 1, h |-> 0]
    [] OTHER -> [valid |-> FALSE, utc |-> TRUE, y |-> 0, m |-> 0, d |-> 0, h |-> 0]

\* the year and month printed in the string, when it has the ISO shape
WrittenYearMonth(s) == [y |-> DateParse(s).y, m |-> DateParse(s).m]

\* Date.prototype.toISOString().slice(0, 7).replace('-', '.'): year and month
\* of the instant in UTC; a local time is z hours ahead of UTC
UtcYearMonth(dt, z) ==
  IF dt.utc \/ dt.h - z >= 0
  THEN [y |-> dt.y, m |-> dt.m]
  ELSE IF dt.d > 1 THEN [y |-> dt.y, m |-> dt.m]
       ELSE IF dt.m > 1 THEN [y |-> dt.y, m |-> dt.m - 1]
            ELSE [y |-> dt.y - 1, m |-> 12]

\* ------------------------------------------------------------- AI replies
Complete(d) ==
  [invoice_date |-> Str(d), seller |-> Str("Acme"), total |-> Str("100.00"),
   tax |-> Str("19%"), payment_method |-> Str("Cash")]

MissingTotal == [Complete("2025-03-01") EXCEPT !.total = Str("")]

MissingDate == [Complete("2025-03-01") EXCEPT !.invoice_date = Str("")]

TotalAmountOnly ==
  [invoice_date |-> Str("2025-03-01"), seller |-> Str("Acme"),
   total_amount |-> Num(12), tax |-> Str(""), payment_method |-> Str("")]

\* message.content of the completion: JSON text of an object, or free text
AiReplies ==
  {[json |-> TRUE, obj |-> Complete(d)] : d \in DateStrings}
  \cup {[json |-> TRUE, obj |-> MissingTotal], [json |-> TRUE, obj |-> MissingDate],
        [json |-> TRUE, obj |-> TotalAmountOnly],
        [json |-> FALSE, obj |-> MissingDate]}

\* the object with the keys of f whose value is not undefined
Pick(f) == [k \in {x \in DOMAIN f : f[x] # Undefined} |-> f[k]]

\* the values a response carries under invoice_date
ReplyDates == {Undefined, Str(""), Str("2025-03-01")}

\* the values a response carries under total
ReplyTotals == {Undefined, Null, Str(""), Str("100.00"), Num(0), Num(12)}

\* the values a response carries under total_amount
ReplyAmounts == {Undefined, Num(12)}

\* seller, tax and payment_method of a response: absent, empty or filled
ReplyOthers ==
  {[seller |-> Undefined, tax |-> Undefined, payment_method |-> Undefined],
   [seller |-> Str(""), tax |-> Str(""), payment_method |-> Str("")],
   [seller |-> Str("Acme"), tax |-> Str("19%"), payment_method |-> Str("Cash")]}

\* the parsed responses of the extraction phase on its own, every
\* combination of the above but the bare {}
ExtractObjects ==
  {Pick([invoice_date |-> d, total |-> t, total_amount |-> a, seller |-> o.seller,
         tax |-> o.tax, payment_method |-> o.payment_method]) :
     d \in ReplyDates, t \in ReplyTotals, a \in ReplyAmounts, o \in ReplyOthers}
  \ {[x \in {} |-> Undefined]}

ExtractReplies ==
  {[json |-> TRUE, obj |-> o] : o \in ExtractObjects}
  \cup {[json |-> FALSE, obj |-> MissingDate]}

\* the replies of the concurrent runs
BatchReplies ==
  {[json |-> TRUE, obj |-> Complete("2025-03-01")], [json |-> TRUE, obj |-> MissingTotal]}

\* total_amount -> total key migration
Migrate(parsed) ==
  IF Get(parsed, "total_amount") # Undefined /\ Get(parsed, "total") = Undefined
  THEN [k \in (DOMAIN parsed \ {"total_amount"}) \cup {"total"} |->
          IF k = "total" THEN parsed["total_amount"] ELSE parsed[k]]
  ELSE parsed

\* what the extractor of the given copy returns for the parsed response:
\* the Twilio handler returns it as parsed, the others migrate the key
Normalize(v, parsed) == IF v = "twilio" THEN parsed ELSE Migrate(parsed)

\* the message of the validation error in the given copy
ValidationMessage(v) ==
  IF v = "resolve" THEN "Required invoice data missing: invoice_date or total amount"
  ELSE "Missing invoice_date or total in AI output"

\* a validation that only looks at the date
ValidationFailsDateOnly(d) == Falsy(Get(d, "invoice_date"))

\* if (!data.invoice_date || !data.total) throw
ValidationFails(d) == Falsy(Get(d, "invoice_date")) \/ Falsy(Get(d, "total"))

\* ------------------------------------------------------------------- CSV
Header ==
  <<Str("Timestamp"), Str("Invoice Date"), Str("Seller"), Str("Total"),
    Str("Tax"), Str("Payment Method")>>

\* csv-stringify: undefined and null become the empty field, a number its
\* decimal text
CsvField(v) ==
  IF v.t \in {"undefined", "null"} THEN Str("")
  ELSE IF v.t = "number" THEN [t |-> "string", s |-> "#", n |-> v.n]
  ELSE v

stringify(r) == [i \in 1..Len(r) |-> CsvField(r[i])]

\* new Date().toISOString() at logical time c
Timestamp(c) == [t |-> "string", s |-> "T", n |-> c]

BuildRow(c, d) ==
  <<Timestamp(c), Get(d, "invoice_date"), Get(d, "seller"), Get(d, "total"),
    Get(d, "tax"), Get(d, "payment_method")>>

\* the bytes of the attachment of invocation i, as file content: one line
\* of one field
Bytes(i) == << <<[t |-> "bytes", s |-> "", n |-> i]>> >>

NoData == [x \in {} |-> Undefined]

NoFolder == [y |-> 0, m |-> 0, n |-> 0]

NoOutcome == [kind |-> "none", ok |-> FALSE, filename |-> <<>>, error |-> ""]

Returned(f) == [kind |-> "returned", ok |-> TRUE, filename |-> f, error |-> ""]

Failure(f, msg) == [kind |-> "returned", ok |-> FALSE, filename |-> f, error |-> msg]

Rejected(msg) == [kind |-> "rejected", ok |-> FALSE, filename |-> <<>>, error |-> msg]

\* ------------------------------------------------------------------ state
VARIABLES
  variant,    \* the deployed copy of processAttachment
  endpoint,   \* whether process.env.PDF_EXTRACT_ENDPOINT is configured
  tz,         \* host time zone, hours east of UTC
  conn,       \* the connectWithRetry call of the mail fetcher
  str,        \* stripFence on its own: the string it is called with
  parsed,     \* stripFence on its own: what JSON.parse made of its result
  started,    \* number of processAttachment invocations so far
  clock,      \* logical time of the host clock
  drive,      \* OneDrive /Invoices: folder id -> (file name -> content)
  pc,         \* per task: the await the task is suspended at
  inv,        \* per task: ordinal of the invocation (also names its buffer)
  given,      \* per task: the filename the caller passed
  ctype,      \* per task: declared contentType
  ai,         \* per task: the AI client in use, "client" or "none"
  text,       \* per task: what extractFromPdf's text extraction yielded
  fname,      \* per task: the local variable filename
  data,       \* per task: the extracted record
  folderId,   \* per task: yearMonth, then the resolved folder id
  row,        \* per task: the row handed to appendCsvRow
  existing,   \* per task: the ledger content downloaded by appendCsvRow
  log,        \* per task: the external calls completed, in order
  outcome     \* per task: what the invocation's promise settled to

vars ==
  <<variant, endpoint, tz, conn, str, parsed, started, clock, drive, pc, inv,
    given, ctype, ai, text, fname, data, folderId, row, existing, log,
    outcome>>

TaskVars == <<inv, given, ctype, ai, text, fname, data, folderId, row, existing>>

\* f with key k set to v, k possibly new
Put(f, k, v) == [x \in DOMAIN f \cup {k} |-> IF x = k THEN v ELSE f[x]]

Entry(o, r) == [op |-> o, ok |-> r]

\* nothing handed to stripFence on its own
NoParse == [done |-> FALSE, ok |-> FALSE, val |-> [k |-> <<>>]]

\* connectWithRetry not called
NoConn ==
  [pc |-> "idle", retries |-> 0, delay |-> 0, attempt |-> 0, made |-> 0,
   waited |-> 0, connected |-> FALSE, error |-> ""]

\* the state of every task before its first invocation
Idle ==
  /\ started = 0
  /\ clock = 0
  /\ drive = [x \in {} |-> <<>>]
  /\ pc = [p \in Tasks |-> "idle"]
  /\ inv = [p \in Tasks |-> 0]
  /\ given = [p \in Tasks |-> <<>>]
  /\ ctype = [p \in Tasks |-> ""]
  /\ ai = [p \in Tasks |-> "none"]
  /\ text = [p \in Tasks |-> "none"]
  /\ fname = [p \in Tasks |-> <<>>]
  /\ data = [p \in Tasks |-> NoData]
  /\ folderId = [p \in Tasks |-> NoFolder]
  /\ row = [p \in Tasks |-> <<>>]
  /\ existing = [p \in Tasks |-> <<>>]
  /\ log = [p \in Tasks |-> <<>>]
  /\ outcome = [p \in Tasks |-> NoOutcome]

\* the deployments that store to OneDrive; they configure the extraction
\* endpoint (the lib copy has no other text extraction, part_000 never
\* reads the setting)
Init ==
  /\ variant \in Variants
  /\ endpoint = TRUE
  /\ tz \in TimeZones
  /\ str = <<>>
  /\ parsed = NoParse
  /\ conn = NoConn
  /\ Idle

\* catch (err) { return { ok: false, filename, error: err.message } }
Catch(p, msg) ==
  /\ pc' = [pc EXCEPT ![p] = "done"]
  /\ outcome' = [outcome EXCEPT ![p] = Failure(fname[p], msg)]

\* a ledger call that completes only while no other invocation is inside
\* the ledger steps
LoggedInTurn(p, o, r) ==
  /\ o \in {"csv_list", "csv_create", "csv_get", "csv_put"} =>
       \A q \in Tasks \ {p} :
         pc[q] \notin {"csv_list", "csv_create", "csv_get", "csv_put"}
  /\ log' = [log EXCEPT ![p] = Append(@, Entry(o, r))]

Logged(p, o, r) == log' = [log EXCEPT ![p] = Append(@, Entry(o, r))]

\* the content-type branch of the given copy: which extractor runs
Branch(v, ct) ==
  IF ct = "application/pdf" THEN "pdf"
  ELSE IF v \in {"lib", "twilio"} THEN "image"
  ELSE IF ct \in ImageTypes THEN "image"
  ELSE "unsupported"

\* the media type in the data URI of extractFromImage's request: the lib
\* copy writes image/png, part_000 and local-test.js write the contentType
\* they were passed, the Twilio handler sends { base64 } and no URI
DataUriType(v, ct) ==
  IF v = "lib" THEN "image/png"
  ELSE IF v \in {"resolve", "local"} THEN ct
  ELSE "none"

\* the text-extraction strategy of the given copy under configuration e:
\* lib and the Twilio handler always fetch the endpoint, part_000 always
\* parses locally, local-test.js looks at the configuration
Strategy(v, e) ==
  IF v \in {"lib", "twilio"} THEN "remote"
  ELSE IF v = "resolve" THEN "local"
  ELSE IF e THEN "remote" ELSE "local"

\* the log name of the text-extraction call of the given strategy
TextOp(st) == IF st = "remote" THEN "text_remote" ELSE "text_local"

\* the content-type branch taken with filename name and AI client c, up to
\* the first awaited call of the extractor
Dispatch(p, ct, c, name) ==
  CASE Branch(variant, ct) = "unsupported" ->
         /\ pc' = [pc EXCEPT ![p] = "done"]
         /\ outcome' = [outcome EXCEPT ![p] = Failure(name, "Unsupported content type")]
    [] Branch(variant, ct) = "image" /\ c = "none" ->
         /\ pc' = [pc EXCEPT ![p] = "done"]
         /\ outcome' = [outcome EXCEPT ![p] =
                          Failure(name, "Cannot read properties of undefined")]
    [] Branch(variant, ct) = "image" /\ c # "none" ->
         /\ pc' = [pc EXCEPT ![p] = "ai"]
         /\ outcome' = [outcome EXCEPT ![p] = NoOutcome]
    [] OTHER ->
         /\ pc' = [pc EXCEPT ![p] = "pdf_text"]
         /\ outcome' = [outcome EXCEPT ![p] = NoOutcome]

\* processAttachment called: resolveOpenAI, sanitizeFilename, the
\* content-type branch, up to the first awaited external call (in the
\* Twilio handler: the media download, the name is used as given)
Start(p, f, ct, c, built) ==
  /\ pc[p] \in {"idle", "done"}
  /\ started < MaxInvocations
  /\ started' = started + 1
  /\ inv' = [inv EXCEPT ![p] = started + 1]
  /\ given' = [given EXCEPT ![p] = f]
  /\ ctype' = [ctype EXCEPT ![p] = ct]
  /\ text' = [text EXCEPT ![p] = "none"]
  /\ data' = [data EXCEPT ![p] = NoData]
  /\ folderId' = [folderId EXCEPT ![p] = NoFolder]
  /\ row' = [row EXCEPT ![p] = <<>>]
  /\ existing' = [existing EXCEPT ![p] = <<>>]
  /\ log' = [log EXCEPT ![p] = <<>>]
  /\ UNCHANGED <<variant, endpoint, tz, conn, str, parsed, clock, drive>>
  /\ IF variant = "resolve" /\ c = "none" /\ ~built
     THEN \* new OpenAI(...) throws before the try block is entered
          /\ ai' = [ai EXCEPT ![p] = "none"]
          /\ fname' = [fname EXCEPT ![p] = f]
          /\ pc' = [pc EXCEPT ![p] = "done"]
          /\ outcome' = [outcome EXCEPT ![p] = Rejected("OPENAI_API_KEY missing")]
     ELSE /\ ai' = [ai EXCEPT ![p] = IF variant \in {"resolve", "local"} THEN "client" ELSE c]
          /\ IF variant = "twilio"
             THEN /\ fname' = [fname EXCEPT ![p] = f]
                  /\ pc' = [pc EXCEPT ![p] = "download"]
                  /\ outcome' = [outcome EXCEPT ![p] = NoOutcome]
             ELSE /\ fname' = [fname EXCEPT ![p] = sanitizeFilename(f)]
                  /\ Dispatch(p, ct, ai'[p], sanitizeFilename(f))

\* downloadFromTwilio returned the media bytes
DownloadOk(p) ==
  /\ pc[p] = "download"
  /\ Logged(p, "download", TRUE)
  /\ Dispatch(p, ctype[p], ai[p], fname[p])
  /\ UNCHANGED <<variant, endpoint, tz, conn, str, parsed, started, clock,
                 drive, TaskVars>>

\* downloadFromTwilio: fetch rejected or answered non-2xx
DownloadFail(p) ==
  /\ pc[p] = "download"
  /\ Logged(p, "download", FALSE)
  /\ Catch(p, "Failed to download media")
  /\ UNCHANGED <<variant, endpoint, tz, conn, str, parsed, started, clock,
                 drive, TaskVars>>

\* the message of the empty-text error of the given copy
NoTextMessage(v) ==
  IF v = "resolve" THEN "PDF parsing yielded no extractable text content"
  ELSE "Local PDF parse produced no text"

\* the message thrown on a non-2xx answer of the extraction endpoint
StatusMessage(v) ==
  IF v = "twilio" THEN "PDF extractor returned 500 Internal Server Error"
  ELSE "PDF extractor failed: 500 Internal Server Error"

\* an extractor without the empty-text check
TextInHandUnchecked(p, st, blank) ==
  /\ text' = [text EXCEPT ![p] = IF blank THEN "blank" ELSE "some"]
  /\ IF ai[p] = "none"
     THEN Catch(p, "Cannot read properties of undefined")
     ELSE /\ pc' = [pc EXCEPT ![p] = "ai"]
          /\ UNCHANGED outcome

\* the text is in hand: the empty-text check of the local strategy, then
\* the completion request is issued (the REQUIRE_AI check of local-test.js
\* cannot fail: without the key the module's new OpenAI(...) has thrown)
TextInHand(p, st, blank) ==
  /\ text' = [text EXCEPT ![p] = IF blank THEN "blank" ELSE "some"]
  /\ IF st = "local" /\ blank
     THEN Catch(p, NoTextMessage(variant))
     ELSE IF ai[p] = "none"
          THEN Catch(p, "Cannot read properties of undefined")
          ELSE /\ pc' = [pc EXCEPT ![p] = "ai"]
               /\ UNCHANGED outcome

\* extractFromPdf: the text extraction returned text (possibly blank): the
\* endpoint answered 2xx and res.text() resolved, or pdfParse resolved;
\* without an endpoint fetch(undefined) can only reject
PdfTextOk(p, blank) ==
  /\ pc[p] = "pdf_text"
  /\ Strategy(variant, endpoint) = "remote" => endpoint
  /\ Logged(p, TextOp(Strategy(variant, endpoint)), TRUE)
  /\ TextInHand(p, Strategy(variant, endpoint), blank)
  /\ UNCHANGED <<variant, endpoint, tz, conn, str, parsed, started, clock,
                 drive, inv, given, ctype, ai, fname, data, folderId, row,
                 existing>>

\* extractFromPdf: the endpoint answered non-2xx, !res.ok throws
PdfTextStatus(p) ==
  /\ pc[p] = "pdf_text"
  /\ Strategy(variant, endpoint) = "remote" /\ endpoint
  /\ Logged(p, "text_remote", FALSE)
  /\ text' = [text EXCEPT ![p] = "status"]
  /\ Catch(p, StatusMessage(variant))
  /\ UNCHANGED <<variant, endpoint, tz, conn, str, parsed, started, clock,
                 drive, inv, given, ctype, ai, fname, data, folderId, row,
                 existing>>

\* extractFromPdf: fetch rejected (no endpoint, network error) or pdfParse
\* threw; parsePdfLocally of local-test.js then calls pdfParse a second
\* time, with { data: buffer }
PdfTextFail(p) ==
  /\ pc[p] = "pdf_text"
  /\ Logged(p, TextOp(Strategy(variant, endpoint)), FALSE)
  /\ text' = [text EXCEPT ![p] = "threw"]
  /\ IF variant = "local" /\ Strategy(variant, endpoint) = "local"
     THEN /\ pc' = [pc EXCEPT ![p] = "pdf_text2"]
          /\ UNCHANGED outcome
     ELSE Catch(p, "PDF extractor failed")
  /\ UNCHANGED <<variant, endpoint, tz, conn, str, parsed, started, clock,
                 drive, inv, given, ctype, ai, fname, data, folderId, row,
                 existing>>

\* parsePdfLocally of local-test.js: pdfParse({ data: buffer }) resolved
PdfRetryOk(p, blank) ==
  /\ pc[p] = "pdf_text2"
  /\ Logged(p, "text_local", TRUE)
  /\ TextInHand(p, "local", blank)
  /\ UNCHANGED <<variant, endpoint, tz, conn, str, parsed, started, clock,
                 drive, inv, given, ctype, ai, fname, data, folderId, row,
                 existing>>

\* parsePdfLocally of local-test.js: the second call threw too, the first
\* error is rethrown with its message prefixed
PdfRetryFail(p) ==
  /\ pc[p] = "pdf_text2"
  /\ Logged(p, "text_local", FALSE)
  /\ Catch(p, "pdf-parse failed on buffer")
  /\ UNCHANGED <<variant, endpoint, tz, conn, str, parsed, started, clock,
                 drive, TaskVars>>

\* an extractor that asks the model again when the content does not parse
AiOkRetrying(p, r) ==
  /\ pc[p] = "ai"
  /\ Logged(p, "ai", TRUE)
  /\ IF ~r.json
     THEN UNCHANGED <<pc, outcome, data>>
     ELSE /\ data' = [data EXCEPT ![p] = Normalize(variant, r.obj)]
          /\ IF ValidationFails(Normalize(variant, r.obj))
             THEN Catch(p, ValidationMessage(variant))
             ELSE /\ pc' = [pc EXCEPT ![p] = "graph"]
                  /\ UNCHANGED outcome
  /\ text' = [text EXCEPT ![p] = "none"]
  /\ UNCHANGED <<variant, endpoint, tz, conn, str, parsed, started, clock,
                 drive, inv, given, ctype, ai, fname, folderId, row,
                 existing>>

\* the completion returned: stripFence, JSON.parse, key migration,
\* validation, then getGraphClient() is awaited; extractFromPdf has
\* returned and its text is gone
AiOk(p, r) ==
  /\ pc[p] = "ai"
  /\ Logged(p, "ai", TRUE)
  /\ IF ~r.json
     THEN /\ Catch(p, "Unexpected token")
          /\ UNCHANGED data
     ELSE /\ data' = [data EXCEPT ![p] = Normalize(variant, r.obj)]
          /\ IF ValidationFails(Normalize(variant, r.obj))
             THEN Catch(p, ValidationMessage(variant))
             ELSE /\ pc' = [pc EXCEPT ![p] = "graph"]
                  /\ UNCHANGED outcome
  /\ text' = [text EXCEPT ![p] = "none"]
  /\ UNCHANGED <<variant, endpoint, tz, conn, str, parsed, started, clock,
                 drive, inv, given, ctype, ai, fname, folderId, row,
                 existing>>

AiFail(p) ==
  /\ pc[p] = "ai"
  /\ Logged(p, "ai", FALSE)
  /\ Catch(p, "AI request failed")
  /\ text' = [text EXCEPT ![p] = "none"]
  /\ UNCHANGED <<variant, endpoint, tz, conn, str, parsed, started, clock,
                 drive, inv, given, ctype, ai, fname, data, folderId, row,
                 existing>>

\* the folders of /Invoices whose name starts as the given period
FoldersOf(ym) == {f \in DOMAIN drive : f.y = ym.y /\ f.m = ym.m}

\* the folder a path lookup of /Invoices/YYYY.MM finds: the one not renamed
Named(ym) == [y |-> ym.y, m |-> ym.m, n |-> 0]

\* POST .../children with conflictBehavior 'rename': a taken name gets a
\* numeric suffix, n counts the folders that already carry the period's name
Created(ym) == [y |-> ym.y, m |-> ym.m, n |-> Cardinality(FoldersOf(ym))]

\* uploadFile's parameter check followed by the PUT being issued
UploadIssued(p) ==
  IF fname[p] = <<>>
  THEN Catch(p, "Invalid parameters: client, folderId, filename and buffer are required")
  ELSE /\ pc' = [pc EXCEPT ![p] = "upload"]
       /\ UNCHANGED outcome

\* getGraphClient resolved; ensureYearMonthFolder parses the date and
\* issues the GET of the folder path
GraphOk(p) ==
  /\ pc[p] = "graph"
  /\ Logged(p, "graph", TRUE)
  /\ LET dt == DateParse(Get(data[p], "invoice_date").s) IN
     IF ~dt.valid
     THEN /\ Catch(p, "Invalid time value")
          /\ UNCHANGED folderId
     ELSE /\ folderId' = [folderId EXCEPT ![p] =
                            [y |-> UtcYearMonth(dt, tz).y, m |-> UtcYearMonth(dt, tz).m, n |-> 0]]
          /\ pc' = [pc EXCEPT ![p] = "folder_get"]
          /\ UNCHANGED outcome
  /\ UNCHANGED <<variant, endpoint, tz, conn, str, parsed, started, clock,
                 drive, inv, given, ctype, ai, text, fname, data, row,
                 existing>>

\* getGraphClient threw: credentials missing
GraphFail(p) ==
  /\ pc[p] = "graph"
  /\ Logged(p, "graph", FALSE)
  /\ Catch(p, "Missing required OneDrive authentication credentials")
  /\ UNCHANGED <<variant, endpoint, tz, conn, str, parsed, started, clock,
                 drive, TaskVars>>

\* GET /Invoices/YYYY.MM answered with the folder
FolderGetOk(p) ==
  /\ pc[p] = "folder_get"
  /\ Named(folderId[p]) \in DOMAIN drive
  /\ Logged(p, "folder_get", TRUE)
  /\ UploadIssued(p)
  /\ UNCHANGED <<variant, endpoint, tz, conn, str, parsed, started, clock,
                 drive, TaskVars>>

\* GET /Invoices/YYYY.MM failed (not found or any other error): the catch
\* block issues the POST that creates the folder
FolderGetFail(p) ==
  /\ pc[p] = "folder_get"
  /\ Logged(p, "folder_get", FALSE)
  /\ pc' = [pc EXCEPT ![p] = "folder_post"]
  /\ UNCHANGED <<variant, endpoint, tz, conn, str, parsed, started, clock,
                 drive, TaskVars, outcome>>

\* POST created the folder, renamed when the name is taken
FolderPostOk(p) ==
  /\ pc[p] = "folder_post"
  /\ Logged(p, "folder_post", TRUE)
  /\ drive' = Put(drive, Created(folderId[p]), [x \in {} |-> <<>>])
  /\ folderId' = [folderId EXCEPT ![p] = Created(folderId[p])]
  /\ UploadIssued(p)
  /\ UNCHANGED <<variant, endpoint, tz, conn, str, parsed, started, clock,
                 inv, given, ctype, ai, text, fname, data, row, existing>>

FolderPostFail(p) ==
  /\ pc[p] = "folder_post"
  /\ Logged(p, "folder_post", FALSE)
  /\ Catch(p, "Failed to create directory")
  /\ UNCHANGED <<variant, endpoint, tz, conn, str, parsed, started, clock,
                 drive, TaskVars>>

\* PUT items/{folderId}:/{filename}:/content stored the buffer;
\* ensureCsvFile issues the listing of the folder's children
UploadOk(p) ==
  /\ pc[p] = "upload"
  /\ Logged(p, "upload", TRUE)
  /\ drive' = [drive EXCEPT ![folderId[p]] = Put(@, fname[p], Bytes(inv[p]))]
  /\ pc' = [pc EXCEPT ![p] = "csv_list"]
  /\ UNCHANGED <<variant, endpoint, tz, conn, str, parsed, started, clock,
                 TaskVars, outcome>>

\* an upload whose failure is swallowed: the ledger steps run all the same
UploadFailSwallowed(p) ==
  /\ pc[p] = "upload"
  /\ Logged(p, "upload", FALSE)
  /\ pc' = [pc EXCEPT ![p] = "csv_list"]
  /\ UNCHANGED <<variant, endpoint, tz, conn, str, parsed, started, clock,
                 drive, TaskVars, outcome>>

UploadFail(p) ==
  /\ pc[p] = "upload"
  /\ Logged(p, "upload", FALSE)
  /\ Catch(p, "File upload failed")
  /\ UNCHANGED <<variant, endpoint, tz, conn, str, parsed, started, clock,
                 drive, TaskVars>>

\* ensureCsvFile returned an id: the arguments of appendCsvRow are
\* evaluated (the row with its timestamp) and the download is issued
RowBuilt(p) ==
  /\ clock' = clock + 1
  /\ row' = [row EXCEPT ![p] = BuildRow(clock + 1, data[p])]
  /\ pc' = [pc EXCEPT ![p] = "csv_get"]

\* the children listing answered: invoices.csv is found, or its creation
\* with the header is issued
CsvListOk(p) ==
  /\ pc[p] = "csv_list"
  /\ Logged(p, "csv_list", TRUE)
  /\ IF FN_Ledger \in DOMAIN drive[folderId[p]]
     THEN RowBuilt(p)
     ELSE /\ pc' = [pc EXCEPT ![p] = "csv_create"]
          /\ UNCHANGED <<clock, row>>
  /\ UNCHANGED <<variant, endpoint, tz, conn, str, parsed, started, drive,
                 inv, given, ctype, ai, text, fname, data, folderId, existing,
                 outcome>>

CsvListFail(p) ==
  /\ pc[p] = "csv_list"
  /\ Logged(p, "csv_list", FALSE)
  /\ Catch(p, "children listing failed")
  /\ UNCHANGED <<variant, endpoint, tz, conn, str, parsed, started, clock,
                 drive, TaskVars>>

\* PUT items/{folderId}:/invoices.csv:/content stored the header
CsvCreateOk(p) ==
  /\ pc[p] = "csv_create"
  /\ Logged(p, "csv_create", TRUE)
  /\ drive' = [drive EXCEPT ![folderId[p]] = Put(@, FN_Ledger, <<stringify(Header)>>)]
  /\ RowBuilt(p)
  /\ UNCHANGED <<variant, endpoint, tz, conn, str, parsed, started, inv,
                 given, ctype, ai, text, fname, data, folderId, existing,
                 outcome>>

CsvCreateFail(p) ==
  /\ pc[p] = "csv_create"
  /\ Logged(p, "csv_create", FALSE)
  /\ Catch(p, "ledger creation failed")
  /\ UNCHANGED <<variant, endpoint, tz, conn, str, parsed, started, clock,
                 drive, TaskVars>>

\* appendCsvRow: GET items/{fileId}/content answered
CsvGetOk(p) ==
  /\ pc[p] = "csv_get"
  /\ Logged(p, "csv_get", TRUE)
  /\ existing' = [existing EXCEPT ![p] = drive[folderId[p]][FN_Ledger]]
  /\ pc' = [pc EXCEPT ![p] = "csv_put"]
  /\ UNCHANGED <<variant, endpoint, tz, conn, str, parsed, started, clock,
                 drive, inv, given, ctype, ai, text, fname, data, folderId,
                 row, outcome>>

CsvGetFail(p) ==
  /\ pc[p] = "csv_get"
  /\ Logged(p, "csv_get", FALSE)
  /\ Catch(p, "ledger download failed")
  /\ UNCHANGED <<variant, endpoint, tz, conn, str, parsed, started, clock,
                 drive, TaskVars>>

\* an append that adds the row to what the file holds when the write lands
CsvPutMerged(p) ==
  /\ pc[p] = "csv_put"
  /\ Logged(p, "csv_put", TRUE)
  /\ drive' = [drive EXCEPT ![folderId[p]] =
                 Put(@, FN_Ledger, drive[folderId[p]][FN_Ledger] \o <<stringify(row[p])>>)]
  /\ pc' = [pc EXCEPT ![p] = "done"]
  /\ outcome' = [outcome EXCEPT ![p] = Returned(fname[p])]
  /\ UNCHANGED <<variant, endpoint, tz, conn, str, parsed, started, clock,
                 TaskVars>>

\* appendCsvRow: PUT items/{fileId}/content stored existing + stringify([row]);
\* processAttachment returns { ok: true, filename }
CsvPutOk(p) ==
  /\ pc[p] = "csv_put"
  /\ Logged(p, "csv_put", TRUE)
  /\ drive' = [drive EXCEPT ![folderId[p]] =
                 Put(@, FN_Ledger, existing[p] \o <<stringify(row[p])>>)]
  /\ pc' = [pc EXCEPT ![p] = "done"]
  /\ outcome' = [outcome EXCEPT ![p] = Returned(fname[p])]
  /\ UNCHANGED <<variant, endpoint, tz, conn, str, parsed, started, clock,
                 TaskVars>>

\* a failed append that compensates by deleting the uploaded file
CsvPutFailRollback(p) ==
  /\ pc[p] = "csv_put"
  /\ Logged(p, "csv_put", FALSE)
  /\ Catch(p, "ledger overwrite failed")
  /\ drive' = [drive EXCEPT ![folderId[p]] =
                 [x \in DOMAIN @ \ {fname[p]} |-> @[x]]]
  /\ UNCHANGED <<variant, endpoint, tz, conn, str, parsed, started, clock,
                 TaskVars>>

CsvPutFail(p) ==
  /\ pc[p] = "csv_put"
  /\ Logged(p, "csv_put", FALSE)
  /\ Catch(p, "ledger overwrite failed")
  /\ UNCHANGED <<variant, endpoint, tz, conn, str, parsed, started, clock,
                 drive, TaskVars>>

\* every completion of an awaited call of task p
Step(p) ==
  \/ \E blank \in BOOLEAN : PdfTextOk(p, blank)
  \/ PdfTextStatus(p)
  \/ PdfTextFail(p)
  \/ AiFail(p)
  \/ GraphOk(p)
  \/ GraphFail(p)
  \/ FolderGetOk(p)
  \/ FolderGetFail(p)
  \/ FolderPostOk(p)
  \/ FolderPostFail(p)
  \/ UploadOk(p)
  \/ UploadFail(p)
  \/ CsvListOk(p)
  \/ CsvListFail(p)
  \/ CsvCreateOk(p)
  \/ CsvCreateFail(p)
  \/ CsvGetOk(p)
  \/ CsvGetFail(p)
  \/ CsvPutOk(p)
  \/ CsvPutFail(p)

\* Promise.all dispatch: the tasks run concurrently on attachments of one
\* message, with the client the handler constructed
Next ==
  \E p \in Tasks :
    \/ \E ct \in {"application/pdf", "image/png"} : Start(p, FN_Invoice, ct, "client", TRUE)
    \/ \E r \in BatchReplies : AiOk(p, r)
    \/ Step(p)

Spec == Init /\ [][Next]_vars

\* one attachment after the other (the for-await loop of fetchEmails),
\* over every input of the model
NextSeq ==
  \/ \E f \in Filenames, ct \in ContentTypes, c \in {"client", "none"}, b \in BOOLEAN :
       Start("A", f, ct, c, b)
  \/ \E r \in AiReplies : AiOk("A", r)
  \/ Step("A")

SpecSeq == Init /\ [][NextSeq]_vars

\* the extraction phase of every copy on its own, run after run, up to the
\* validation gate: a record that passes leaves the task waiting for
\* getGraphClient; each copy under either configuration of the endpoint
InitExtract ==
  /\ variant \in ExtractVariants
  /\ endpoint \in BOOLEAN
  /\ tz \in TimeZones
  /\ str = <<>>
  /\ parsed = NoParse
  /\ conn = NoConn
  /\ Idle

NextExtract ==
  \/ \E ct \in ContentTypes \cup ImageTypes, c \in {"client", "none"} :
       Start("A", FN_Invoice, ct, c, TRUE)
  \/ DownloadOk("A")
  \/ DownloadFail("A")
  \/ \E blank \in BOOLEAN : PdfTextOk("A", blank)
  \/ PdfTextStatus("A")
  \/ PdfTextFail("A")
  \/ \E blank \in BOOLEAN : PdfRetryOk("A", blank)
  \/ PdfRetryFail("A")
  \/ \E r \in ExtractReplies : AiOk("A", r)
  \/ AiFail("A")

SpecExtract == InitExtract /\ [][NextExtract]_vars

\* stripFence and JSON.parse on their own: a completion whose content is
\* the serialization of an object, fenced or not, under either copy
InitFence ==
  /\ variant \in FenceVariants
  /\ endpoint = TRUE
  /\ tz = 0
  /\ str \in {JSONstringify(o) : o \in FenceObjects}
             \cup {Fenced(JSONstringify(o)) : o \in FenceObjects}
  /\ parsed = NoParse
  /\ conn = NoConn
  /\ Idle

\* JSON.parse(stripFence(response.choices[0].message.content))
ParseReply ==
  /\ ~parsed.done
  /\ parsed' = JSONparse(stripFence(variant, str))
  /\ UNCHANGED <<variant, endpoint, tz, conn, str, started, clock, drive, pc,
                 TaskVars, log, outcome>>

SpecFence == InitFence /\ [][ParseReply]_vars

\* ---------------------------------------------------------------- claims
Settled(p) == pc[p] = "done" /\ inv[p] > 0

Succeeded(p) == Settled(p) /\ outcome[p].kind = "returned" /\ outcome[p].ok

Ops(p) == {log[p][i].op : i \in 1..Len(log[p])}

OkOps(p) == {log[p][i].op : i \in {j \in 1..Len(log[p]) : log[p][j].ok}}

StorageOps ==
  {"folder_get", "folder_post", "upload", "csv_list", "csv_create", "csv_get", "csv_put"}

IsPrefix(a, b) == Len(a) <= Len(b) /\ SubSeq(b, 1, Len(a)) = a

Contains(content, r) == \E i \in 1..Len(content) : content[i] = r

HasLedger(f) == f \in DOMAIN drive /\ FN_Ledger \in DOMAIN drive[f]

\* C1: every invocation settles with a ProcessingOutcome value,
\* {ok:true, filename} or {ok:false, filename, error}; no exception or
\* rejected promise reaches the caller, whatever collaborator failed.
C1_NeverThrows ==
  \A p \in Tasks : Settled(p) => outcome[p].kind = "returned"

\* C2: the ledger is append-only: every step leaves each existing
\* invoices.csv as a prefix of its new content, so a row once written
\* stays present, unchanged and in its position.
C2_AppendOnly ==
  [][\A f \in DOMAIN drive :
       FN_Ledger \in DOMAIN drive[f] =>
         IsPrefix(drive[f][FN_Ledger], drive'[f][FN_Ledger])]_vars

\* C3: two invocations that both downloaded the same ledger content before
\* either overwrote it both return {ok:true}, and the ledger never holds
\* both of their rows: the earlier overwrite's row is lost.
C3_LostUpdate ==
  \A a \in Tasks, b \in Tasks :
    (/\ a # b
     /\ Succeeded(a) /\ Succeeded(b)
     /\ folderId[a] = folderId[b]
     /\ existing[a] = existing[b])
    => /\ ~(/\ Contains(drive[folderId[a]][FN_Ledger], stringify(row[a]))
            /\ Contains(drive[folderId[a]][FN_Ledger], stringify(row[b])))
       /\ "csv_put" \in OkOps(a) /\ "csv_put" \in OkOps(b)

\* C3 witness: A and B raced on one ledger, both returned ok, the ledger
\* is B's download plus B's row and A's row is gone.
C3_Witness ==
  /\ Succeeded("A") /\ Succeeded("B")
  /\ folderId["A"] = folderId["B"]
  /\ existing["A"] = existing["B"]
  /\ drive[folderId["B"]][FN_Ledger] = existing["B"] \o <<stringify(row["B"])>>
  /\ ~Contains(drive[folderId["A"]][FN_Ledger], stringify(row["A"]))

InvoiceDate(p) == Get(data[p], "invoice_date")

Extracted(p) == inv[p] > 0 /\ data[p] # NoData

Count(p, o) == Cardinality({i \in 1..Len(log[p]) : log[p][i].op = o})

\* C4: when the extracted record has a falsy invoice_date or a falsy total
\* the invocation has returned {ok:false} with the validation message and
\* has made no storage call: no folder lookup or creation, no upload, no
\* ledger listing, creation, download or overwrite.
C4_ValidationStopsCommit ==
  \A p \in Tasks :
    (Extracted(p) /\ (Falsy(InvoiceDate(p)) \/ Falsy(Get(data[p], "total"))))
    => /\ Settled(p)
       /\ outcome[p] = Failure(fname[p], ValidationMessage(variant))
       /\ Ops(p) \cap StorageOps = {}
       /\ pc[p] \notin StorageOps

\* C4 witness: a record with an empty total was extracted and rejected.
C4_Witness ==
  /\ Settled("A")
  /\ Extracted("A") /\ Get(data["A"], "total") = Str("")
  /\ ~Falsy(InvoiceDate("A"))
  /\ outcome["A"].error = ValidationMessage(variant)

\* C5: a contentType outside the PDF and image families ends the
\* invocation with the unsupported-type failure before any extraction: no
\* text-extraction call, no AI completion call, no storage call.
C5_UnsupportedRejected ==
  \A p \in Tasks :
    (inv[p] > 0 /\ ctype[p] = "application/zip")
    => /\ pc[p] = "done"
       /\ Ops(p) = {}
       /\ outcome[p].kind = "returned" =>
            (~outcome[p].ok /\ outcome[p].error = "Unsupported content type")

Stage(o) ==
  CASE o \in {"folder_get", "folder_post"} -> 1
    [] o = "upload" -> 2
    [] o \in {"csv_list", "csv_create"} -> 3
    [] o \in {"csv_get", "csv_put"} -> 4
    [] OTHER -> 0

\* C6: the commit sub-steps run in the order folder resolution, upload,
\* ledger ensure, ledger append, each only after the previous one
\* succeeded; a failed call is the last call of the invocation (a failed
\* folder lookup is followed only by the folder creation) and ends it with
\* {ok:false}; {ok:true} needs all four sub-steps to have succeeded.
C6_CommitOrder ==
  \A p \in Tasks :
    /\ \A i \in 1..Len(log[p]), j \in 1..Len(log[p]) :
         i < j => Stage(log[p][i].op) <= Stage(log[p][j].op)
    /\ \A j \in 1..Len(log[p]) :
         Stage(log[p][j].op) >= 2 =>
           \E i \in 1..(j - 1) :
             log[p][i].ok /\ Stage(log[p][i].op) = Stage(log[p][j].op) - 1
    /\ \A i \in 1..Len(log[p]) :
         ~log[p][i].ok =>
           IF log[p][i].op = "folder_get"
           THEN IF i = Len(log[p]) THEN pc[p] = "folder_post"
                ELSE log[p][i + 1].op = "folder_post"
           ELSE i = Len(log[p]) /\ Settled(p) /\ ~outcome[p].ok
    /\ Succeeded(p) =>
         /\ {"upload", "csv_list", "csv_get", "csv_put"} \subseteq OkOps(p)
         /\ OkOps(p) \cap {"folder_get", "folder_post"} # {}

\* C6 witness: the upload succeeded, the ledger listing failed, nothing
\* ran after it and the outcome is a failure.
C6_Witness ==
  /\ Settled("A") /\ ~outcome["A"].ok
  /\ "upload" \in OkOps("A")
  /\ log["A"][Len(log["A"])] = Entry("csv_list", FALSE)

\* C7: no rollback: when the upload succeeded and a later sub-step failed,
\* the outcome is {ok:false}, the uploaded bytes are still in the folder
\* under the sanitized name and the ledger holds no row of the invocation.
C7_NoRollback ==
  \A p \in Tasks :
    (Settled(p) /\ "upload" \in OkOps(p) /\ ~outcome[p].ok)
    => /\ outcome[p].kind = "returned"
       /\ fname[p] \in DOMAIN drive[folderId[p]]
       /\ drive[folderId[p]][fname[p]] = Bytes(inv[p])
       /\ HasLedger(folderId[p]) /\ row[p] # <<>> =>
            ~Contains(drive[folderId[p]][FN_Ledger], stringify(row[p]))

\* C7 witness: the ledger overwrite failed after a successful upload.
C7_Witness ==
  /\ Settled("A") /\ ~outcome["A"].ok
  /\ "upload" \in OkOps("A")
  /\ log["A"][Len(log["A"])] = Entry("csv_put", FALSE)
  /\ drive[folderId["A"]][fname["A"]] = Bytes(inv["A"])

\* C8: the destination folder is the YYYY.MM written in invoice_date,
\* whatever the host's clock and time zone; an unparsable invoice_date
\* fails folder resolution: {ok:false}, no folder, no upload.
C8_FolderFromInvoiceDate ==
  \A p \in Tasks :
    /\ folderId[p] # NoFolder =>
         [y |-> folderId[p].y, m |-> folderId[p].m] = WrittenYearMonth(InvoiceDate(p).s)
    /\ (Settled(p) /\ "graph" \in OkOps(p) /\ ~DateParse(InvoiceDate(p).s).valid) =>
         /\ outcome[p].kind = "returned" /\ ~outcome[p].ok
         /\ folderId[p] = NoFolder
         /\ Ops(p) \cap StorageOps = {}

\* C9: an invocation that returned {ok:true, filename} made exactly one
\* upload, under the returned sanitized name, into the YYYY.MM folder of
\* invoice_date, and appended exactly one six-field row [timestamp,
\* invoice_date, seller, total, tax, payment_method] to that folder's ledger.
C9_OneUploadOneRow ==
  \A p \in Tasks :
    Succeeded(p) =>
      /\ Count(p, "upload") = 1
      /\ outcome[p].filename = fname[p]
      /\ folderId[p] = Named(WrittenYearMonth(InvoiceDate(p).s))
      /\ fname[p] \in DOMAIN drive[folderId[p]]
      /\ Count(p, "csv_put") = 1
      /\ Len(row[p]) = 6
      /\ row[p][2] = InvoiceDate(p)
      /\ row[p][3] = Get(data[p], "seller")
      /\ row[p][4] = Get(data[p], "total")
      /\ row[p][5] = Get(data[p], "tax")
      /\ row[p][6] = Get(data[p], "payment_method")

\* the image scenario of the happy path, no collaborator failing
HappyImage(p) ==
  /\ Settled(p)
  /\ given[p] = FN_Invoice
  /\ ctype[p] = "image/png"
  /\ data[p] = Complete("2025-03-01")
  /\ \A i \in 1..Len(log[p]) : log[p][i].ok \/ log[p][i].op = "folder_get"
  /\ "csv_put" \in Ops(p)

\* "Invoice_1.png"
FN_Claimed == <<"I","n","v","o","i","c","e","_","1",".","p","n","g">>

\* "Invoice_-1.png"
FN_Sanitized == <<"I","n","v","o","i","c","e","_","-","1",".","p","n","g">>

\* C10 as stated: the happy-path image run returns
\* {ok:true, filename:"Invoice_1.png"} and uploads under that name.
C10_Original ==
  \A p \in Tasks :
    HappyImage(p) =>
      /\ outcome[p] = Returned(FN_Claimed)
      /\ FN_Claimed \in DOMAIN drive[folderId[p]]

\* C10 amended: the happy-path image run returns
\* {ok:true, filename:"Invoice_-1.png"}: '#' becomes '-', the space '_',
\* and that name is the one used for the upload.
C10_Amended ==
  \A p \in Tasks :
    HappyImage(p) =>
      /\ outcome[p] = Returned(FN_Sanitized)
      /\ FN_Sanitized \in DOMAIN drive[folderId[p]]

\* C10 witness: the happy-path image run has returned.
C10_Witness == HappyImage("A") /\ outcome["A"].ok

\* a parsed response was handed to the validation of task p
Gated(p) == "ai" \in OkOps(p) /\ data[p] # NoData

\* the value is there and is not the empty string
NonEmpty(v) == v.t \notin {"undefined", "null"} /\ v # Str("")

\* C11: a record handed to validation passes it exactly when its
\* invoice_date and its total are both non-empty, whatever seller, tax and
\* payment_method are; string and numeric totals alike, the numeric total 0
\* and a total that came from total_amount included.
C11_ValidationGate ==
  \A p \in Tasks :
    Gated(p) =>
      IF NonEmpty(Get(data[p], "invoice_date")) /\ NonEmpty(Get(data[p], "total"))
      THEN pc[p] = "graph"
      ELSE Settled(p) /\ outcome[p] = Failure(fname[p], ValidationMessage(variant))

\* C12: when the parsed AI response has a total_amount key and no total
\* key, on the image path and on the PDF path alike, the record the
\* extractor returns has total equal to the former total_amount and has no
\* total_amount key.
C12_KeyMigration ==
  [][\A r \in ExtractReplies :
       (/\ r.json
        /\ "total_amount" \in DOMAIN r.obj
        /\ "total" \notin DOMAIN r.obj
        /\ AiOk("A", r))
       => /\ "total" \in DOMAIN data'["A"]
          /\ data'["A"]["total"] = r.obj["total_amount"]
          /\ "total_amount" \notin DOMAIN data'["A"]]_vars

\* the amount a parsed response carries: its total when that is not
\* empty, else its total_amount
Amount(o) ==
  IF NonEmpty(Get(o, "total")) \/ "total_amount" \notin DOMAIN o
  THEN Get(o, "total")
  ELSE o["total_amount"]

\* C13: whatever combination of total and total_amount the parsed response
\* carries (total_amount alone, both keys, an empty or null total next to a
\* total_amount), the record handed to validation has no total_amount key
\* and one total key, which holds the amount.
C13_OneTotalKey ==
  [][\A r \in ExtractReplies :
       (/\ r.json
        /\ {"total", "total_amount"} \cap DOMAIN r.obj # {}
        /\ AiOk("A", r))
       => /\ "total_amount" \notin DOMAIN data'["A"]
          /\ "total" \in DOMAIN data'["A"]
          /\ data'["A"]["total"] = Amount(r.obj)]_vars

\* C14: for every JSON object o, the ones whose string values hold triple
\* backticks or zero-width characters included, JSON.parse of stripFence of
\* (3 bt)json\n + stringify(o) + \n(3 bt) is o, and JSON.parse of stripFence
\* of stringify(o) is o.
C14_FenceRoundTrip ==
  \A o \in FenceObjects :
    (parsed.done /\ str \in {Fenced(JSONstringify(o)), JSONstringify(o)})
    => parsed = ParseOk(o.k)

\* the completion of task p returned and its content did not parse
ParseFailed(p) == "ai" \in OkOps(p) /\ data[p] = NoData

\* C15: when the content of the AI response is no valid JSON after fence
\* stripping, the invocation has returned {ok:false} with the parse error,
\* has made the AI call once and has made no storage call.
C15_ParseFailureTerminal ==
  \A p \in Tasks :
    ParseFailed(p) =>
      /\ Settled(p)
      /\ outcome[p] = Failure(fname[p], "Unexpected token")
      /\ Count(p, "ai") = 1
      /\ Ops(p) \cap StorageOps = {}

\* C15 witness: a PDF whose text was extracted, the completion came back as
\* free text and the invocation ended there.
C15_Witness ==
  /\ ParseFailed("A") /\ Settled("A")
  /\ ctype["A"] = "application/pdf"
  /\ log["A"][Len(log["A"])] = Entry("ai", TRUE)

\* C16: on the local strategy, when decoding the PDF yielded a text that is
\* empty after trimming, the invocation has returned {ok:false} with the
\* no-text error and makes no AI call.
C16_LocalEmptyText ==
  \A p \in Tasks :
    (text[p] = "blank" /\ "text_local" \in OkOps(p))
    => /\ Settled(p)
       /\ outcome[p] \in {Failure(fname[p], "PDF parsing yielded no extractable text content"),
                          Failure(fname[p], "Local PDF parse produced no text")}
       /\ "ai" \notin Ops(p)

\* C16 witness: the local decode of a PDF returned a blank text and the
\* invocation ended with that one call.
C16_Witness ==
  /\ Settled("A") /\ text["A"] = "blank"
  /\ ctype["A"] = "application/pdf"
  /\ log["A"] = <<Entry("text_local", TRUE)>>

\* C17: under either strategy, remote or local, a PDF whose extracted text
\* is empty after trimming does not proceed to field extraction: no AI call
\* is made and the outcome is {ok:false}.
C17_EmptyTextStops ==
  \A p \in Tasks :
    text[p] = "blank"
    => /\ Settled(p)
       /\ outcome[p].kind = "returned" /\ ~outcome[p].ok
       /\ "ai" \notin Ops(p)

\* the strategy the configuration selects
Configured == IF endpoint THEN "text_remote" ELSE "text_local"

\* C18: for each PDF one text-extraction strategy is attempted, the one the
\* configuration selects (remote with an endpoint, local without); a
\* failure of it is terminal: no second extraction call, no AI call, and a
\* non-2xx answer of the endpoint gives {ok:false} with the status code and
\* reason in the error.
C18_OneStrategy ==
  \A p \in Tasks :
    /\ \A i \in 1..Len(log[p]) :
         log[p][i].op \in {"text_remote", "text_local"} =>
           /\ log[p][i].op = Configured
           /\ log[p][i].ok \/ (i = Len(log[p]) /\ Settled(p) /\ ~outcome[p].ok)
    /\ Count(p, "text_remote") + Count(p, "text_local") <= 1
    /\ text[p] = "status" =>
         outcome[p] \in {Failure(fname[p], "PDF extractor failed: 500 Internal Server Error"),
                         Failure(fname[p], "PDF extractor returned 500 Internal Server Error")}

\* C19: inside one invocation no failed step is attempted again: the text
\* extraction (remote call or local decode), the AI call, the upload and
\* the ledger overwrite are each issued at most once, and the first failed
\* call ends the invocation with {ok:false}.
C19_NoRetry ==
  \A p \in Tasks :
    /\ Count(p, "text_remote") + Count(p, "text_local") <= 1
    /\ Count(p, "ai") <= 1
    /\ Count(p, "upload") <= 1
    /\ Count(p, "csv_put") <= 1
    /\ \A i \in 1..Len(log[p]) :
         (~log[p][i].ok /\ log[p][i].op # "folder_get") =>
           /\ i = Len(log[p])
           /\ Settled(p) /\ outcome[p].kind = "returned" /\ ~outcome[p].ok

\* folder resolution of task p has returned an id
Resolved(p) == {"folder_get", "folder_post"} \cap OkOps(p) # {}

\* C20: folder resolution is idempotent: invocations with dates of one
\* year-month, sequential or concurrent, get the id of one and the same
\* folder, at most one folder per period is ever created, and the creation
\* request is sent only when the folder is absent.
C20_FolderIdempotent ==
  /\ \A f \in DOMAIN drive : f = Named(f)
  /\ \A a \in Tasks, b \in Tasks :
       (Resolved(a) /\ Resolved(b) /\ Named(folderId[a]) = Named(folderId[b]))
       => folderId[a] = folderId[b]
  /\ \A p \in Tasks : pc[p] = "folder_post" => Named(folderId[p]) \notin DOMAIN drive

\* ------------------------------------------------------------------- C21
\* the ledgers of the drive, as <<folder, content>> pairs
Ledgers == {<<f, drive[f][FN_Ledger]>> : f \in {g \in DOMAIN drive : HasLedger(g)}}

\* the lines of a file that are the header line
HeaderLines(content) == {i \in 1..Len(content) : content[i] = stringify(Header)}

\* C21: in every reachable state the first line of every invoices.csv is the
\* six-column header and the header occurs in it exactly once
C21_HeaderOnce ==
  \A l \in Ledgers : Len(l[2]) > 0 /\ HeaderLines(l[2]) = {1}

\* ------------------------------------------------------------------- C22
\* the same attachment handed to processAttachment again and again, one run
\* after the other, the AI reading the same complete record off it each
\* time; of the external calls only the folder lookup ever fails (the folder
\* is absent on the first run)
NextRepeat ==
  \/ \E f \in Filenames, ct \in {"application/pdf", "image/png"} :
       /\ inv["A"] > 0 => (f = given["A"] /\ ct = ctype["A"])
       /\ Start("A", f, ct, "client", TRUE)
  \/ PdfTextOk("A", FALSE)
  \/ AiOk("A", [json |-> TRUE, obj |-> Complete("2025-03-01")])
  \/ GraphOk("A")
  \/ FolderGetOk("A")
  \/ FolderGetFail("A")
  \/ FolderPostOk("A")
  \/ UploadOk("A")
  \/ CsvListOk("A")
  \/ CsvCreateOk("A")
  \/ CsvGetOk("A")
  \/ CsvPutOk("A")

SpecRepeat == Init /\ [][NextRepeat]_vars

\* the folders of the period of task p's invoice that hold a file named as
\* task p's upload
Holders(p) == {g \in FoldersOf(folderId[p]) : fname[p] \in DOMAIN drive[g]}

\* C22: after N successful runs on the same attachment there is exactly one
\* stored object of its name, holding the last upload's content, and the
\* ledger next to it holds the header and N rows
C22_NoDedup ==
  Succeeded("A") =>
    /\ Cardinality(Holders("A")) = 1
    /\ \A g \in Holders("A") :
         /\ drive[g][fname["A"]] = Bytes(started)
         /\ HasLedger(g)
         /\ Len(drive[g][FN_Ledger]) = 1 + started

\* ------------------------------------------------------------------- C23
\* task p waits for the completion of extractFromImage's request
ImageRequest(p) ==
  pc[p] = "ai" /\ ctype[p] \in ImageTypes /\ Branch(variant, ctype[p]) = "image"

\* C23: the data URI of every image request carries the attachment's
\* declared contentType
C23_DataUriType ==
  \A p \in Tasks : ImageRequest(p) => DataUriType(variant, ctype[p]) = ctype[p]

\* ------------------------------------------------------------- C24, C25
\* sanitizeFilename on its own: processAttachment called once with a name
\* made of a short word over letters, reserved characters and whitespace,
\* with a run of letters before or after it that brings the name to the
\* neighbourhood of the 100-character cut or far beyond it
MaxWordLen == 3

SanitizerChars == {"a", "%", " ", "\t"}

Words == UNION {[1..n -> SanitizerChars] : n \in 0..MaxWordLen}

Pad(k) == [i \in 1..k |-> "a"]

PadLengths == {0, MaxNameLen - 2, MaxNameLen - 1, MaxNameLen, 2 * MaxNameLen}

SanitizerInputs ==
  {Pad(k) \o w : k \in PadLengths, w \in Words}
  \cup {w \o Pad(k) : k \in PadLengths, w \in Words}

NextSanitize ==
  \E f \in SanitizerInputs : Start("A", f, "image/png", "client", TRUE)

SpecSanitize == Init /\ [][NextSanitize]_vars

\* the call was made with name s and the local variable filename holds
\* the sanitizer's result
Sanitized(p) == inv[p] > 0

HasChar(s, set) == \E i \in 1..Len(s) : s[i] \in set

\* C24: sanitizing a sanitized name changes nothing
C24_Idempotent ==
  Sanitized("A") => sanitizeFilename(fname["A"]) = fname["A"]

\* a name over 100 characters with a reserved character and whitespace in
\* it has been sanitized
C24_Witness ==
  /\ Sanitized("A")
  /\ Len(given["A"]) > MaxNameLen
  /\ HasChar(given["A"], IllegalChars)
  /\ HasChar(given["A"], WhitespaceChars)
  /\ fname["A"] # given["A"]

\* C25: the sanitized name has at most 100 characters
C25_LengthBound ==
  Sanitized("A") => Len(fname["A"]) <= MaxNameLen

\* a name over 100 characters in which a replacement occurred within the
\* first 100 has been cut to 100
C25_Witness ==
  /\ Sanitized("A")
  /\ Len(given["A"]) > MaxNameLen
  /\ Len(fname["A"]) = MaxNameLen
  /\ fname["A"] # SubSeq(given["A"], 1, MaxNameLen)

\* ------------------------------------------------------------------- C26
\* the stage task p is in, by the call it waits for: 0 not called, 2
\* sanitized and extracting, 4 validated and committing, 6 outcome; received
\* (1), extracted (3) and committed (5) are passed between two awaits
Phase(p) ==
  CASE pc[p] = "idle" -> 0
    [] pc[p] \in {"download", "pdf_text", "pdf_text2", "ai"} -> 2
    [] pc[p] = "done" -> 6
    [] OTHER -> 4

\* the last call of task p's log failed and the code has no handler for it
FailedCall(p) ==
  /\ log[p] # <<>>
  /\ ~log[p][Len(log[p])].ok
  /\ log[p][Len(log[p])].op # "folder_get"

\* C26: within an invocation the stage never decreases; a failed call ends
\* the invocation at once; an invocation ends in an outcome value, which
\* carries the failure's message when it is a failure; after the outcome
\* the task does nothing but start another invocation
C26_Linear ==
  [][\A p \in Tasks :
       /\ inv'[p] = inv[p] => Phase(p)' >= Phase(p)
       /\ (log'[p] # log[p] /\ FailedCall(p)') => pc'[p] = "done"
       /\ (pc'[p] = "done" /\ pc[p] # "done") =>
            /\ outcome'[p].kind = "returned"
            /\ outcome'[p].ok \/ outcome'[p].error # ""
       /\ pc[p] = "done" =>
            \/ inv'[p] > inv[p]
            \/ <<pc[p], log[p], outcome[p]>>' = <<pc[p], log[p], outcome[p]>>]_vars

\* ------------------------------------------------------------------- C27
\* C27: the completion of uploadFile's PUT leaves the content of every
\* existing invoices.csv as it was
C27_UploadFrame ==
  [][\A p \in Tasks :
       (pc[p] = "upload" /\ pc'[p] = "csv_list") =>
         \A f \in DOMAIN drive :
           HasLedger(f) => drive'[f][FN_Ledger] = drive[f][FN_Ledger]]_vars

\* ------------------------------------------------------------------- C28
\* C28: ensureCsvFile's creation write leaves every ledger that holds
\* rows with the rows it holds
C28_EnsureKeepsRows ==
  [][\A p \in Tasks :
       (pc[p] = "csv_create" /\ pc'[p] = "csv_get") =>
         \A f \in DOMAIN drive :
           (HasLedger(f) /\ Len(drive[f][FN_Ledger]) > 1) =>
             IsPrefix(drive[f][FN_Ledger], drive'[f][FN_Ledger])]_vars

\* ------------------------------------------------------------------- C29
\* the call task p waits for returns or fails
Returns(p) == Step(p) \/ \E r \in BatchReplies : AiOk(p, r)

\* the lib copy on a host at UTC
InitFair == Init /\ variant = "lib" /\ tz = 0

\* the concurrent invocations when every external call eventually returns
\* or fails
SpecFair == InitFair /\ [][Next]_vars /\ \A p \in Tasks : WF_vars(Returns(p))

\* C29: every invocation that was started eventually returns an outcome
C29_Terminates ==
  \A p \in Tasks :
    (pc[p] \notin {"idle", "done"}) ~> (Settled(p) /\ outcome[p].kind = "returned")

\* both invocations were inside the ledger steps of one folder at once
C29_Witness ==
  /\ pc["A"] = "csv_get" /\ pc["B"] = "csv_list"
  /\ folderId["A"] = folderId["B"]

\* ------------------------------------------------------------------- C30
\* connectWithRetry(client, retries, delay) of the mail fetcher, on its own
MaxRetries == 5

RetryValues == 0..MaxRetries

\* milliseconds; 2000 is the default
Delays == {0, 1000, 2000}

InitConnect ==
  /\ variant = "lib"
  /\ endpoint = TRUE
  /\ tz = 0
  /\ str = <<>>
  /\ parsed = NoParse
  /\ conn \in {[NoConn EXCEPT !.retries = r, !.delay = d] :
                 r \in RetryValues, d \in Delays}
  /\ Idle

\* the for loop's test with the given value of attempt: client.connect() is
\* issued, or the loop is left and the function returns undefined
LoopTest(c, a) ==
  IF a <= c.retries
  THEN [c EXCEPT !.attempt = a, !.pc = "connect", !.made = @ + 1]
  ELSE [c EXCEPT !.attempt = a, !.pc = "returned"]

\* connectWithRetry is called: let attempt = 1 and the first test
ConnectCall ==
  /\ conn.pc = "idle"
  /\ conn' = LoopTest(conn, 1)
  /\ UNCHANGED <<variant, endpoint, tz, str, parsed, started, clock, drive, pc,
                 TaskVars, log, outcome>>

\* client.connect() resolved: return
ConnectOk ==
  /\ conn.pc = "connect"
  /\ conn' = [conn EXCEPT !.pc = "returned", !.connected = TRUE]
  /\ UNCHANGED <<variant, endpoint, tz, str, parsed, started, clock, drive, pc,
                 TaskVars, log, outcome>>

\* client.connect() rejected: the timer is set, or the last attempt throws
ConnectFail ==
  /\ conn.pc = "connect"
  /\ conn' = IF conn.attempt < conn.retries
             THEN [conn EXCEPT !.pc = "sleep"]
             ELSE [conn EXCEPT !.pc = "threw",
                               !.error = "Exceeded maximum retry attempts"]
  /\ UNCHANGED <<variant, endpoint, tz, str, parsed, started, clock, drive, pc,
                 TaskVars, log, outcome>>

\* setTimeout(resolve, delay) fired: attempt++ and the next test
TimerFired ==
  /\ conn.pc = "sleep"
  /\ conn' = LoopTest([conn EXCEPT !.waited = @ + conn.delay], conn.attempt + 1)
  /\ UNCHANGED <<variant, endpoint, tz, str, parsed, started, clock, drive, pc,
                 TaskVars, log, outcome>>

NextConnect == ConnectCall \/ ConnectOk \/ ConnectFail \/ TimerFired

SpecConnect == InitConnect /\ [][NextConnect]_vars

\* C30: at most `retries` connect attempts are made, one delay apart; the
\* first success ends the call; the error is raised after `retries` failed
\* attempts; a normal return means a connect attempt succeeded
C30_ConnectWithRetry ==
  /\ conn.made <= conn.retries
  /\ conn.made > 0 => conn.waited = (conn.made - 1) * conn.delay
  /\ conn.connected => conn.pc = "returned"
  /\ conn.pc = "threw" =>
       /\ conn.made = conn.retries
       /\ conn.error = "Exceeded maximum retry attempts"
  /\ conn.pc = "returned" => conn.connected

====
